---- MODULE Spec2Model ----
(***************************************************************************)
(* Model of the type-inference kernel of tensorscript:                     *)
(*   - the Type algebra, its PartialEq and Hash (trsc/src/typing/types.rs) *)
(*   - Substitution and the first unifier (src/type_reconstruction/        *)
(*     subst.rs: substitute, apply_ty, compose, unify, unify_one,          *)
(*     unify_var, occurs)                                                  *)
(*   - the later unifier with a diagnostic vector (src/type_reconstruction *)
(*     /unifier.rs: Unifier::unify, unify_one, unify_var, occurs), which   *)
(*     imports type_reconstruction::subst::Substitution.                   *)
(* Constraint sets are std HashSets and substitutions std HashMaps, so the *)
(* equation popped by unify and the order in which apply_ty folds the      *)
(* entries are not fixed by the code: every operator that depends on such  *)
(* an order returns the SET of results over all orders.  A panic!() is an  *)
(* outcome with status # "ok"; it unwinds through every caller.            *)
(***************************************************************************)
EXTENDS Integers, Sequences, FiniteSets, TLC

VARIABLES
    impl,         \* which unifier runs: "subst" (subst.rs) or "unifier" (unifier.rs)
    constraints,  \* the Constraints handed to unify
    pc,           \* "start" before the call, "done" after it returned or panicked
    result,       \* the outcome of the call
    sigma1,       \* compose: self
    sigma2,       \* compose: other
    probe,        \* compose: the type both sides of the law are applied to
    lhs,          \* sigma1.compose(sigma2).apply_ty(probe)
    rhs,          \* sigma2.apply_ty(sigma1.apply_ty(probe))
    ta,           \* eq/hash: first type (with spans)
    tb,           \* eq/hash: second type (with spans)
    eqres,        \* ta == tb
    hasha,        \* what ta.Type_hash(state) feeds the hasher, or the panic
    hashb,        \* what tb.Type_hash(state) feeds the hasher, or the panic
    isResolved,   \* what ta.is_resolved() returned: "true", "false" or "unimplemented"
    envImpl,      \* which TypeEnv: "typing" (typing/type_env.rs) or "typed_ast"
    tenv,         \* the TypeEnv: counter, modules (and the ids handed out so far)
    ret,          \* the last TypeEnv operation, its arguments and what it returned
    nops,         \* number of TypeEnv operations made so far
    events,       \* scope replay: the block entries and exits of the traversal
    phase,        \* scope replay: "annotate", "collect" or "end"
    pos           \* scope replay: number of events of the phase already walked

unifyVars == <<impl, constraints, result>>
composeVars == <<sigma1, sigma2, probe, lhs, rhs>>
hashVars == <<ta, tb, eqres, hasha, hashb, isResolved>>
envVars == <<envImpl, tenv, ret, nops>>
replayVars == <<events, phase, pos>>
vars == <<pc, unifyVars, composeVars, hashVars, envVars, replayVars>>

(***************************************************************************)
(* Bounds of the model.                                                    *)
(***************************************************************************)
MaxId == 2      \* type-variable ids are 1..MaxId
MaxLen == 2     \* longest dimension list / argument list
MaxEqs == 2     \* most equations in a top-level constraint set

(***************************************************************************)
(* Type (span-free view: PartialEq and Hash of Type ignore the span, so a  *)
(* HashSet<Equals> and a HashMap keyed by ids never observe it).           *)
(***************************************************************************)
Unit == [tag |-> "Unit"]
INT == [tag |-> "INT"]
FLOAT == [tag |-> "FLOAT"]
BOOL == [tag |-> "BOOL"]
VAR(i) == [tag |-> "VAR", id |-> i]
DIM(i) == [tag |-> "DIM", id |-> i]
ResolvedDim(n) == [tag |-> "ResolvedDim", n |-> n]
FUN(p, r) == [tag |-> "FUN", p |-> p, r |-> r]
TSR(ds) == [tag |-> "TSR", dims |-> ds]
FnArgs(v) == [tag |-> "FnArgs", args |-> v]
FnArg(name, t) == [tag |-> "FnArg", name |-> name, ty |-> t]
Module(name, inner) == [tag |-> "Module", name |-> name, inner |-> inner]
Tuple(v) == [tag |-> "Tuple", elems |-> v]
UnresolvedModuleFun == [tag |-> "UnresolvedModuleFun"]

\* Option::None for an argument name and for a module's inner type
None == "None"
NoInner == [tag |-> "NoInner"]

\* the value that stands for "this call panicked / hit unimplemented!()"
PanicTy == [tag |-> "PANIC"]

Equals(a, b) == [a |-> a, b |-> b]

(***************************************************************************)
(* Substitution(HashMap<TypeId, Type>): a function from a finite set of    *)
(* ids to types.                                                           *)
(***************************************************************************)
EmptySubst == [k \in {} |-> INT]

Single(tvar, ty) == [k \in {tvar} |-> ty]

\* the iteration orders a HashMap with key set S can have
Orders(S) ==
    {f \in [1..Cardinality(S) -> S] : \A i, j \in 1..Cardinality(S) : f[i] = f[j] => i = j}

Min(a, b) == IF a < b THEN a ELSE b

\* v1.into_iter().zip(v2).map(|(i, j)| Equals(i, j)).collect()
Zip(v1, v2) == {Equals(v1[i], v2[i]) : i \in 1..Min(Len(v1), Len(v2))}

RECURSIVE substitute(_, _, _)
\* subst.rs substitute(ty, tvar, replacement)
substitute(ty, tvar, replacement) ==
    CASE ty.tag \in {"Unit", "INT", "BOOL", "FLOAT", "ResolvedDim"} -> ty
      [] ty.tag \in {"VAR", "DIM"} ->
            IF tvar = ty.id THEN replacement ELSE ty
      [] ty.tag = "FnArgs" ->
            IF \E i \in DOMAIN ty.args : ty.args[i].tag # "FnArg"
            THEN PanicTy
            ELSE LET new == [i \in DOMAIN ty.args |->
                               FnArg(ty.args[i].name,
                                     substitute(ty.args[i].ty, tvar, replacement))]
                 IN  IF \E i \in DOMAIN new : new[i].ty = PanicTy
                     THEN PanicTy
                     ELSE FnArgs(new)
      [] ty.tag = "FUN" ->
            LET p == substitute(ty.p, tvar, replacement)
                r == substitute(ty.r, tvar, replacement)
            IN  IF p = PanicTy \/ r = PanicTy THEN PanicTy ELSE FUN(p, r)
      [] ty.tag = "TSR" -> ty
      [] OTHER -> PanicTy

RECURSIVE apply_ty_from(_, _, _, _)
\* the fold of apply_ty from entry i of the iteration order on
apply_ty_from(s, ord, i, acc) ==
    IF i > Len(ord) THEN acc
    ELSE apply_ty_from(s, ord, i + 1, substitute(acc, ord[i], s[ord[i]]))

\* subst.rs Substitution::apply_ty, the HashMap iterated in order ord
apply_ty(s, ord, ty) == apply_ty_from(s, ord, 1, ty)

\* subst.rs Substitution::apply_equals
apply_equals(s, ord, eq) == Equals(apply_ty(s, ord, eq.a), apply_ty(s, ord, eq.b))

\* subst.rs Substitution::apply: the image collected into a new HashSet
apply(s, ord, cs) == {apply_equals(s, ord, eq) : eq \in cs}

\* an equation one side of which panicked while being rewritten
EqPanicked(eq) == eq.a = PanicTy \/ eq.b = PanicTy

\* subst.rs Substitution::compose: self = s, other iterated in order ord;
\* extend() lets other's entry replace self's on a shared key
compose(s, other, ord) ==
    [k \in (DOMAIN s) \cup (DOMAIN other) |->
        IF k \in DOMAIN other THEN other[k] ELSE apply_ty(other, ord, s[k])]

\* compose panics when rewriting one of self's values panics
ComposePanics(s, other, ord) ==
    \E k \in DOMAIN s : apply_ty(other, ord, s[k]) = PanicTy

(***************************************************************************)
(* Outcomes of a unification call.                                         *)
(***************************************************************************)
Ok(s, errs) == [status |-> "ok", subst |-> s, errs |-> errs]
Panic(msg, errs) == [status |-> msg, subst |-> EmptySubst, errs |-> errs]

RECURSIVE occurs(_, _)
\* subst.rs occurs (unifier.rs occurs is the same function)
occurs(tvar, ty) ==
    CASE ty.tag = "FUN" -> occurs(tvar, ty.p) \/ occurs(tvar, ty.r)
      [] ty.tag = "VAR" -> tvar = ty.id
      [] OTHER -> FALSE

\* subst.rs unify_var (unifier.rs Unifier::unify_var binds the same id)
unify_var(tvar, ty, errs) ==
    IF ty.tag \in {"VAR", "DIM"}
    THEN IF tvar = ty.id THEN Ok(EmptySubst, errs) ELSE Ok(Single(tvar, ty), errs)
    ELSE IF occurs(tvar, ty)
         THEN Panic("circular type", errs)
         ELSE Ok(Single(tvar, ty), errs)

RECURSIVE unify(_), unify_one(_)
\* subst.rs unify_one: the outcomes of one equation (the match arms are tried
\* in source order)
unify_one(cs) ==
    LET a == cs.a
        b == cs.b
    IN  IF a.tag = "INT" /\ b.tag = "INT" THEN {Ok(EmptySubst, <<>>)}
        ELSE IF a.tag = "FLOAT" /\ b.tag = "FLOAT" THEN {Ok(EmptySubst, <<>>)}
        ELSE IF a.tag = "BOOL" /\ b.tag = "BOOL" THEN {Ok(EmptySubst, <<>>)}
        ELSE IF a.tag = "ResolvedDim" /\ b.tag = "ResolvedDim" THEN
            IF a.n = b.n THEN {Ok(EmptySubst, <<>>)}
            ELSE {Panic("dimension mismatch", <<>>)}
        ELSE IF a.tag = "VAR" THEN {unify_var(a.id, b, <<>>)}
        ELSE IF b.tag = "VAR" THEN {unify_var(b.id, a, <<>>)}
        ELSE IF a.tag = "DIM" THEN {unify_var(a.id, b, <<>>)}
        ELSE IF b.tag = "DIM" THEN {unify_var(b.id, a, <<>>)}
        ELSE IF a.tag = "FnArgs" /\ b.tag = "FnArgs" THEN unify(Zip(a.args, b.args))
        ELSE IF a.tag = "FnArg" /\ b.tag = "FnArg" /\ a.name # None /\ b.name # None THEN
            IF a.name = b.name THEN unify({Equals(a.ty, b.ty)})
            ELSE {Panic("supplied parameter is incorrect", <<>>)}
        ELSE IF a.tag = "FnArg" /\ b.tag = "FnArg" /\ a.name = None /\ b.name # None THEN
            unify({Equals(a.ty, b.ty)})
        ELSE IF a.tag = "FnArg" /\ b.tag = "FnArg" /\ a.name # None /\ b.name = None THEN
            unify({Equals(a.ty, b.ty)})
        ELSE IF a.tag = "FnArg" /\ b.tag = "FnArg" /\ a.name = None /\ b.name = None THEN
            unify({Equals(a.ty, b.ty)})
        ELSE IF a.tag = "FUN" /\ b.tag = "FUN" THEN
            unify({Equals(a.p, b.p), Equals(a.r, b.r)})
        ELSE IF a.tag = "TSR" /\ b.tag = "TSR" THEN unify(Zip(a.dims, b.dims))
        ELSE {Panic("no rule", <<>>)}

\* subst.rs unify: pop any equation of the HashSet, unify it, rewrite the
\* rest, recurse, compose
unify(cs) ==
    IF cs = {} THEN {Ok(EmptySubst, <<>>)}
    ELSE UNION {
        UNION {
            IF r1.status # "ok" THEN {r1}
            ELSE UNION {
                LET tail == apply(r1.subst, o1, cs \ {eq})
                IN  IF \E e \in tail : EqPanicked(e)
                    THEN {Panic("substitute", <<>>)}
                    ELSE UNION {
                        IF r2.status # "ok" THEN {r2}
                        ELSE {IF ComposePanics(r1.subst, r2.subst, o2)
                              THEN Panic("substitute", <<>>)
                              ELSE Ok(compose(r1.subst, r2.subst, o2), <<>>)
                                : o2 \in Orders(DOMAIN r2.subst)}
                        : r2 \in unify(tail)}
                : o1 \in Orders(DOMAIN r1.subst)}
            : r1 \in unify_one(eq)}
        : eq \in cs}

RECURSIVE Unifier_unify(_, _), Unifier_unify_one(_, _)
\* unifier.rs Unifier::unify_one; errs is self.errs on entry (the match arms
\* are tried in source order)
Unifier_unify_one(cs, errs) ==
    LET a == cs.a
        b == cs.b
    IN  IF a.tag = "Unit" /\ b.tag = "Unit" THEN {Ok(EmptySubst, errs)}
        ELSE IF a.tag = "INT" /\ b.tag = "INT" THEN {Ok(EmptySubst, errs)}
        ELSE IF a.tag = "FLOAT" /\ b.tag = "FLOAT" THEN {Ok(EmptySubst, errs)}
        ELSE IF a.tag = "BOOL" /\ b.tag = "BOOL" THEN {Ok(EmptySubst, errs)}
        ELSE IF a.tag = "INT" /\ b.tag = "ResolvedDim" THEN {Ok(EmptySubst, errs)}
        ELSE IF a.tag = "ResolvedDim" /\ b.tag = "INT" THEN {Ok(EmptySubst, errs)}
        ELSE IF a.tag = "ResolvedDim" /\ b.tag = "ResolvedDim" THEN
            IF a.n = b.n THEN {Ok(EmptySubst, errs)}
            ELSE {Ok(EmptySubst,
                     Append(errs, [kind |-> "DimensionMismatch", a |-> a, b |-> b]))}
        ELSE IF a.tag = "VAR" THEN {unify_var(a.id, b, errs)}
        ELSE IF b.tag = "VAR" THEN {unify_var(b.id, a, errs)}
        ELSE IF a.tag = "DIM" THEN {unify_var(a.id, b, errs)}
        ELSE IF b.tag = "DIM" THEN {unify_var(b.id, a, errs)}
        ELSE IF a.tag = "FnArgs" /\ b.tag = "FnArgs" THEN
            Unifier_unify(Zip(a.args, b.args), errs)
        ELSE IF a.tag = "FnArg" /\ b.tag = "FnArg" /\ a.name # None /\ b.name # None THEN
            IF a.name = b.name
            THEN Unifier_unify({Equals(a.ty, b.ty)}, errs)
            ELSE {Panic("supplied parameter is incorrect", errs)}
        ELSE IF a.tag = "FUN" /\ b.tag = "FUN" THEN
            Unifier_unify({Equals(a.p, b.p), Equals(a.r, b.r)}, errs)
        ELSE IF a.tag = "TSR" /\ b.tag = "TSR" THEN
            Unifier_unify(Zip(a.dims, b.dims), errs)
        ELSE IF a.tag = "Module" /\ b.tag = "Module"
                /\ a.inner # NoInner /\ b.inner # NoInner THEN
            IF a.name = b.name
            THEN Unifier_unify({Equals(a.inner, b.inner)}, errs)
            ELSE {Panic("module name", errs)}
        ELSE IF a.tag = "UnresolvedModuleFun" THEN {Ok(EmptySubst, errs)}
        ELSE {Panic("no rule", errs)}

\* unifier.rs Unifier::unify
Unifier_unify(cs, errs) ==
    IF cs = {} THEN {Ok(EmptySubst, errs)}
    ELSE UNION {
        UNION {
            IF r1.status # "ok" THEN {r1}
            ELSE UNION {
                LET tail == apply(r1.subst, o1, cs \ {eq})
                IN  IF \E e \in tail : EqPanicked(e)
                    THEN {Panic("substitute", r1.errs)}
                    ELSE UNION {
                        IF r2.status # "ok" THEN {r2}
                        ELSE {IF ComposePanics(r1.subst, r2.subst, o2)
                              THEN Panic("substitute", r2.errs)
                              ELSE Ok(compose(r1.subst, r2.subst, o2), r2.errs)
                                : o2 \in Orders(DOMAIN r2.subst)}
                        : r2 \in Unifier_unify(tail, r1.errs)}
                : o1 \in Orders(DOMAIN r1.subst)}
            : r1 \in Unifier_unify_one(eq, errs)}
        : eq \in cs}

RECURSIVE Mentions(_, _)
\* Var(v) or Dim(v) is reachable inside t through a Fun parameter or return,
\* FnArgs, FnArg, Tsr, Tuple or Module inner type
Mentions(v, t) ==
    CASE t.tag \in {"VAR", "DIM"} -> t.id = v
      [] t.tag = "FUN" -> Mentions(v, t.p) \/ Mentions(v, t.r)
      [] t.tag = "FnArgs" -> \E i \in DOMAIN t.args : Mentions(v, t.args[i])
      [] t.tag = "FnArg" -> Mentions(v, t.ty)
      [] t.tag = "TSR" -> \E i \in DOMAIN t.dims : Mentions(v, t.dims[i])
      [] t.tag = "Tuple" -> \E i \in DOMAIN t.elems : Mentions(v, t.elems[i])
      [] t.tag = "Module" -> t.inner # NoInner /\ Mentions(v, t.inner)
      [] OTHER -> FALSE

(***************************************************************************)
(* TypeEnv (src/typing/type_env.rs, and the earlier src/typed_ast/         *)
(* type_env.rs where the two differ).  A ModName is a string, Global or    *)
(* the name of Named(s); an Alias is the string of Alias::Variable(s).  A  *)
(* Scope is the map types: Alias -> Type; a module is the tuple (active    *)
(* VecDeque<Scope>, parked VecDeque<Scope>, InitMap) with the back of a    *)
(* VecDeque at the end of the sequence.  Every operation returns           *)
(* Res(env, status, val): the TypeEnv it leaves, "ok" / "err" (an Err(..)  *)
(* or None value returned) / "panic", and the value returned.  The field   *)
(* issued of the TypeEnv is the history of the ids fresh_dim and fresh_var *)
(* have returned.                                                          *)
(***************************************************************************)
Global == "Global"

\* Option<Type>::None
NoType == [tag |-> "None"]

\* Scope::new()
Scope_new == [a \in {} |-> NoType]

\* the entry made for a module that does not exist yet: one empty scope
NewModule == [active |-> <<Scope_new>>, parked |-> <<>>, inits |-> Scope_new]

Res(env, status, val) == [env |-> env, status |-> status, val |-> val]

\* TensorScriptDiagnostic::DuplicateVarInScope(alias, orig_ty, ty)
DuplicateVarInScope(a, orig, ty) ==
    [kind |-> "DuplicateVarInScope", alias |-> a, orig |-> orig, ty |-> ty]

\* the scope with alias a bound to ty as well
Bind(scope, a, ty) == [x \in (DOMAIN scope) \cup {a} |-> IF x = a THEN ty ELSE scope[x]]

\* the TypeEnv with the entry of module m set to rec
SetModule(env, m, rec) ==
    [env EXCEPT !.modules =
        [x \in (DOMAIN env.modules) \cup {m} |-> IF x = m THEN rec ELSE env.modules[x]]]

\* TypeEnv::new(): typing/type_env.rs imports the prelude, which binds "view"
\* to its module type in Global (the methods Core::import adds to the module
\* "view" come from outside these sources); typed_ast/type_env.rs starts with
\* no module at all
TypeEnv_new(which) ==
    [counter |-> 0,
     issued |-> <<>>,
     modules |->
        IF which = "typing"
        THEN [mn \in {Global} |->
                [NewModule EXCEPT !.active = <<Bind(Scope_new, "view", Module("view", NoInner))>>]]
        ELSE [mn \in {} |-> NewModule]]

\* a fresh_dim that hands out the next id and leaves the counter as it is
fresh_dim_stale(env) ==
    Res([env EXCEPT !.issued = Append(@, env.counter + 1)], "ok", DIM(env.counter + 1))

\* TypeEnv::fresh_dim
fresh_dim(env) ==
    Res([env EXCEPT !.counter = @ + 1, !.issued = Append(@, env.counter + 1)],
        "ok", DIM(env.counter + 1))

\* TypeEnv::fresh_var
fresh_var(env) ==
    Res([env EXCEPT !.counter = @ + 1, !.issued = Append(@, env.counter + 1)],
        "ok", VAR(env.counter + 1))

\* TypeEnv::push_scope
push_scope(env, m) ==
    IF m \notin DOMAIN env.modules THEN Res(env, "panic", NoType)
    ELSE Res(SetModule(env, m, [env.modules[m] EXCEPT !.active = Append(@, Scope_new)]),
             "ok", NoType)

\* TypeEnv::push_scope_collection
push_scope_collection(env, m) ==
    IF m \notin DOMAIN env.modules THEN Res(env, "panic", NoType)
    ELSE LET stack == env.modules[m] IN
         IF stack.parked = <<>> THEN Res(env, "panic", NoType)
         ELSE Res(SetModule(env, m, [stack EXCEPT !.parked = Tail(@),
                                                  !.active = Append(@, Head(stack.parked))]),
                  "ok", NoType)

\* a pop_scope that discards the scope it pops and parks nothing
pop_scope_drop(env, m) ==
    IF m \notin DOMAIN env.modules THEN Res(env, "panic", NoType)
    ELSE LET stack == env.modules[m] IN
         IF stack.active = <<>> THEN Res(env, "panic", NoType)
         ELSE Res(SetModule(env, m, [stack EXCEPT !.active = SubSeq(@, 1, Len(@) - 1)]),
                  "ok", NoType)

\* TypeEnv::pop_scope
pop_scope(env, m) ==
    IF m \notin DOMAIN env.modules THEN Res(env, "panic", NoType)
    ELSE LET stack == env.modules[m] IN
         IF stack.active = <<>> THEN Res(env, "panic", NoType)
         ELSE Res(SetModule(env, m,
                    [stack EXCEPT !.active = SubSeq(@, 1, Len(@) - 1),
                                  !.parked = Append(@, stack.active[Len(stack.active)])]),
                  "ok", NoType)

\* TypeEnv::get_scoped_types for a module that exists: the bindings of alias
\* in the active scopes, from the back of the stack to its front
get_scoped_types(env, m, alias) ==
    LET act == env.modules[m].active
        rev == [i \in 1..Len(act) |-> act[Len(act) + 1 - i]]
        found == SelectSeq(rev, LAMBDA sc : alias \in DOMAIN sc)
    IN  [i \in 1..Len(found) |-> found[i][alias]]

\* TypeEnv::resolve_type_inner; PanicTy when get_scoped_types does not find
\* the module
resolve_type_inner(env, m, alias) ==
    IF m \notin DOMAIN env.modules THEN PanicTy
    ELSE LET types == get_scoped_types(env, m, alias) IN
         IF types = <<>> THEN NoType ELSE types[Len(types)]

\* TypeEnv::resolve_type: typing/type_env.rs looks into Global only when the
\* module has no binding (or_else); typed_ast/type_env.rs always does (or)
resolve_type(which, env, m, alias) ==
    LET r == resolve_type_inner(env, m, alias) IN
    IF r = PanicTy THEN PanicTy
    ELSE IF which = "typing"
         THEN IF r # NoType THEN r ELSE resolve_type_inner(env, Global, alias)
         ELSE LET g == resolve_type_inner(env, Global, alias) IN
              IF g = PanicTy THEN PanicTy ELSE IF r # NoType THEN r ELSE g

\* TypeEnv::exists for a module that exists
exists(env, m, alias) == get_scoped_types(env, m, alias) # <<>>

\* TypeEnv::upsert_module
upsert_module(env, m) ==
    IF m \in DOMAIN env.modules THEN Res(env, "ok", NoType)
    ELSE Res(SetModule(env, m, NewModule), "ok", NoType)

\* TypeEnv::add_type: typing/type_env.rs returns Err(DuplicateVarInScope) for
\* an alias the top scope has, typed_ast/type_env.rs panics; stack.0.len() - 1
\* on an empty active stack panics in both
add_type(which, env, m, alias, ty) ==
    LET env1 == IF m \in DOMAIN env.modules THEN env ELSE SetModule(env, m, NewModule)
        stack == env1.modules[m]
        top == Len(stack.active)
    IN  IF top = 0 THEN Res(env1, "panic", NoType)
        ELSE IF alias \in DOMAIN stack.active[top]
        THEN IF which = "typing"
             THEN Res(env1, "err", DuplicateVarInScope(alias, stack.active[top][alias], ty))
             ELSE Res(env1, "panic", NoType)
        ELSE Res(SetModule(env1, m,
                    [stack EXCEPT !.active[top] = Bind(stack.active[top], alias, ty)]),
                 "ok", NoType)

\* TypeEnv::add_dim_alias
add_dim_alias(which, env, m, alias) ==
    LET tyvar == fresh_dim(env) IN add_type(which, tyvar.env, m, alias, tyvar.val)

\* TypeEnv::add_resolved_dim_alias
add_resolved_dim_alias(which, env, m, alias, num) ==
    add_type(which, env, m, alias, ResolvedDim(num))

\* t.parse::<i64>() of the dimension tokens that are numerals
ParseTable == [tok \in {"3", "03", "4"} |-> IF tok = "4" THEN 4 ELSE 3]

RECURSIVE create_tensor_from(_, _, _, _, _, _)
\* the map over dims[i..] of create_tensor, acc the dimensions collected
create_tensor_from(which, env, m, dims, i, acc) ==
    IF i > Len(dims) THEN Res(env, "ok", TSR(acc))
    ELSE IF which = "typing" /\ dims[i] \in DOMAIN ParseTable
    THEN create_tensor_from(which, env, m, dims, i + 1,
                            Append(acc, ResolvedDim(ParseTable[dims[i]])))
    ELSE LET ty == resolve_type(which, env, m, dims[i]) IN
         IF ty = PanicTy THEN Res(env, "panic", NoType)
         ELSE IF ty = NoType
         THEN IF which = "typing"
              THEN LET f == fresh_dim(env) IN
                   create_tensor_from(which, f.env, m, dims, i + 1, Append(acc, f.val))
              ELSE Res(env, "panic", NoType)
         ELSE IF which = "typing" /\ ty.tag = "TSR"
         THEN create_tensor_from(which, env, m, dims, i + 1, acc \o ty.dims)
         ELSE create_tensor_from(which, env, m, dims, i + 1, Append(acc, ty))

\* TypeEnv::create_tensor: typing/type_env.rs parses numerals, gives a token
\* that does not resolve a fresh Dim and splices a Tsr in; typed_ast/
\* type_env.rs unwraps the lookup of every token
create_tensor(which, env, m, dims) == create_tensor_from(which, env, m, dims, 1, <<>>)

RECURSIVE add_dims_from(_, _, _, _, _)
\* the first loop of add_tsr_alias from tsr[i] on
add_dims_from(which, env, m, tsr, i) ==
    IF i > Len(tsr) THEN Res(env, "ok", NoType)
    ELSE IF m \notin DOMAIN env.modules THEN Res(env, "panic", NoType)
    ELSE IF exists(env, m, tsr[i]) THEN add_dims_from(which, env, m, tsr, i + 1)
    ELSE LET r == add_dim_alias(which, env, m, tsr[i]) IN
         IF r.status = "ok" THEN add_dims_from(which, r.env, m, tsr, i + 1) ELSE r

\* TypeEnv::add_tsr_alias
add_tsr_alias(which, env, m, alias, tsr) ==
    LET d == add_dims_from(which, env, m, tsr, 1) IN
    IF d.status # "ok" THEN d
    ELSE LET c == create_tensor(which, d.env, m, tsr) IN
         IF c.status # "ok" THEN c
         ELSE add_type(which, c.env, m, alias, c.val)

(***************************************************************************)
(* The TypeEnv under any sequence of its operations.                       *)
(***************************************************************************)
MaxOps == 4     \* most TypeEnv operations in one run

EnvMods == {Global, "m"}
EnvAliases == {"n"}
BindTypes == {INT, ResolvedDim(3)}
DimLists == {<<"n">>, <<"k", "k">>, <<"t", "03">>}

\* what ret records of a call: the operation, its module, alias and remaining
\* argument, and what it returned
Ret(op, m, a, arg, r) ==
    [op |-> op, m |-> m, a |-> a, arg |-> arg, status |-> r.status, val |-> r.val]

NoCall == [op |-> "new", m |-> Global, a |-> "", arg |-> NoType, status |-> "ok", val |-> NoType]

EnvIdle ==
    envImpl = "typing" /\ tenv = TypeEnv_new("typing") /\ ret = NoCall /\ nops = 0
ReplayIdle == events = <<>> /\ phase = "end" /\ pos = 0

(***************************************************************************)
(* The constraint sets handed to unify.                                    *)
(***************************************************************************)
Ids == 1..MaxId
TyVars == {VAR(i) : i \in Ids} \cup {DIM(i) : i \in Ids}
RDims == {ResolvedDim(n) : n \in {3, 4, 5}}
Leaves == {INT, FLOAT} \cup RDims \cup TyVars

\* sequences over S of length 1..MaxLen
SeqsOf(S) == UNION {[1..n -> S] : n \in 1..MaxLen}

Tsrs == {TSR(ds) : ds \in SeqsOf(RDims \cup {DIM(1), VAR(1)})}
Funs == {FUN(p, r) : p, r \in {INT, VAR(1), DIM(1)}}
Args == {FnArg(n, t) : n \in {None, "x", "y"}, t \in {INT, FLOAT, VAR(1)}}
ArgLists == {FnArgs(v) : v \in SeqsOf({FnArg(None, INT), FnArg("x", INT), FnArg("x", VAR(1))})}
\* the variants subst.rs names, and those only unifier.rs and types.rs name
Plain == {Unit, BOOL}
Later ==
    {UnresolvedModuleFun, Tuple(<<INT, INT>>),
     Module("m", NoInner), Module("m", INT), Module("m", VAR(1)), Module("n", INT)}
Types == Leaves \cup Tsrs \cup Funs \cup Args \cup ArgLists \cup Plain \cup Later

\* single equations: the two sides have the same variant, or one of them is
\* a leaf or one of the unstructured variants in Small
EqPool(Small) ==
    {Equals(a, b) : a, b \in Small}
      \cup UNION {{Equals(a, b), Equals(b, a)} :
                    a \in Small, b \in Tsrs \cup Funs \cup Args \cup ArgLists}
      \cup UNION {{Equals(a, b) : a, b \in S} : S \in {Tsrs, Funs, Args, ArgLists}}

\* equations that are combined into sets of up to MaxEqs equations
PairPool ==
    {Equals(v, t) : v \in TyVars, t \in {INT, FLOAT, ResolvedDim(3)}}
      \cup {Equals(VAR(i), VAR(j)) : i, j \in Ids}
      \cup {Equals(VAR(i), TSR(<<VAR(j)>>)) : i, j \in Ids}
      \cup {Equals(VAR(i), FUN(VAR(j), INT)) : i, j \in Ids}
      \cup {Equals(TSR(<<VAR(i)>>), TSR(<<t>>)) : i \in Ids, t \in {FLOAT, VAR(1)}}
      \cup {Equals(TSR(<<DIM(1), DIM(2)>>), TSR(<<ResolvedDim(3), ResolvedDim(3)>>)),
            Equals(FnArg("x", VAR(1)), FnArg("x", INT)),
            Equals(FnArg("x", VAR(1)), FnArg("y", FLOAT)),
            Equals(INT, FLOAT),
            Equals(ResolvedDim(3), ResolvedDim(4))}

RECURSIVE SetsUpTo(_)
\* the subsets of PairPool with at most n equations
SetsUpTo(n) ==
    IF n = 0 THEN {{}}
    ELSE LET P == SetsUpTo(n - 1) IN P \cup {F \cup {e} : F \in P, e \in PairPool}

\* the constraint sets given to each unifier
InputSets(which) ==
    {{e} : e \in EqPool(Leaves \cup Plain \cup (IF which = "subst" THEN {} ELSE Later))}
      \cup SetsUpTo(MaxEqs)

\* the values the variables of the other components keep
UnifyIdle == impl = "subst" /\ constraints = {} /\ result = Ok(EmptySubst, <<>>)
ComposeIdle ==
    sigma1 = EmptySubst /\ sigma2 = EmptySubst /\ probe = INT /\ lhs = INT /\ rhs = INT
HashIdle ==
    ta = INT /\ tb = INT /\ eqres = TRUE /\ hasha = <<>> /\ hashb = <<>> /\ isResolved = "true"

Init ==
    /\ impl \in {"subst", "unifier"}
    /\ constraints \in InputSets(impl)
    /\ pc = "start"
    /\ result = Ok(EmptySubst, <<>>)
    /\ ComposeIdle
    /\ HashIdle
    /\ EnvIdle
    /\ ReplayIdle

\* a call of subst.rs unify(constraints); the outcome is any of those the
\* iteration orders of the hash containers allow
CallUnify ==
    /\ pc = "start"
    /\ impl = "subst"
    /\ \E r \in unify(constraints) : result' = r
    /\ pc' = "done"
    /\ UNCHANGED <<impl, constraints, composeVars, hashVars, envVars, replayVars>>

\* a call of Unifier::new().unify(constraints, tenv)
CallUnifierUnify ==
    /\ pc = "start"
    /\ impl = "unifier"
    /\ \E r \in Unifier_unify(constraints, <<>>) : result' = r
    /\ pc' = "done"
    /\ UNCHANGED <<impl, constraints, composeVars, hashVars, envVars, replayVars>>

Next == CallUnify \/ CallUnifierUnify

Spec == Init /\ [][Next]_vars

(***************************************************************************)
(* Substitution::compose against sequential application.                   *)
(***************************************************************************)
\* the values a substitution binds its keys to
SubstValues == {INT, FLOAT} \cup {VAR(i) : i \in Ids}

\* the substitutions over the ids that satisfy the invariant of Substitution:
\* no key occurs in a value
Substs ==
    {s \in UNION {[D -> SubstValues] : D \in SUBSET Ids} :
        \A k, j \in DOMAIN s : ~Mentions(k, s[j])}

ComposeTypes == TyVars \cup {INT, FUN(VAR(1), VAR(2)), TSR(<<VAR(1)>>)}

InitCompose ==
    /\ pc = "start"
    /\ sigma1 \in Substs
    /\ sigma2 \in Substs
    /\ probe \in ComposeTypes
    /\ lhs = INT
    /\ rhs = INT
    /\ UnifyIdle
    /\ HashIdle
    /\ EnvIdle
    /\ ReplayIdle

\* evaluates both sides of the composition law; every HashMap involved
\* (self, other, the composed map) has its own iteration order
Compose ==
    /\ pc = "start"
    /\ \E o1 \in Orders(DOMAIN sigma1), o2 \in Orders(DOMAIN sigma2) :
         /\ rhs' = apply_ty(sigma2, o2, apply_ty(sigma1, o1, probe))
         /\ LET composed == compose(sigma1, sigma2, o2) IN
            \E o3 \in Orders(DOMAIN composed) : lhs' = apply_ty(composed, o3, probe)
    /\ pc' = "done"
    /\ UNCHANGED <<sigma1, sigma2, probe, unifyVars, hashVars, envVars, replayVars>>

NextCompose == Compose

SpecCompose == InitCompose /\ [][NextCompose]_vars

(***************************************************************************)
(* Type with its spans: PartialEq and Hash (trsc/src/typing/types.rs).     *)
(***************************************************************************)
Spans == {1, 2}

\* the type t with the span sp stamped on its top node (Type::with_span)
with_span(t, sp) == [f \in (DOMAIN t) \cup {"span"} |-> IF f = "span" THEN sp ELSE t[f]]

Stamped(S) == {with_span(t, sp) : t \in S, sp \in Spans}

\* FUN(module, method, param, ret, span) and
\* UnresolvedModuleFun(path, module, method, span) of types.rs
FUN5(m, n, p, r) == [tag |-> "FUN", m |-> m, n |-> n, p |-> p, r |-> r]
UMF(a, b, c) == [tag |-> "UnresolvedModuleFun", a |-> a, b |-> b, c |-> c]

RECURSIVE Type_eq(_, _)
\* Vec<Type> == Vec<Type>
VecEq(u, v) == Len(u) = Len(v) /\ \A i \in DOMAIN u : Type_eq(u[i], v[i])

\* impl PartialEq for Type
Type_eq(a, b) ==
    IF a.tag # b.tag THEN FALSE
    ELSE CASE a.tag \in {"Unit", "INT", "FLOAT", "BOOL"} -> TRUE
           [] a.tag \in {"VAR", "DIM"} -> a.id = b.id
           [] a.tag = "Module" ->
                /\ a.name = b.name
                /\ IF a.inner = NoInner \/ b.inner = NoInner
                   THEN a.inner = b.inner
                   ELSE Type_eq(a.inner, b.inner)
           [] a.tag = "FnArgs" -> VecEq(a.args, b.args)
           [] a.tag = "Tuple" -> VecEq(a.elems, b.elems)
           [] a.tag = "FnArg" -> a.name = b.name /\ Type_eq(a.ty, b.ty)
           [] a.tag = "ResolvedDim" -> a.n = b.n
           [] a.tag = "FUN" -> Type_eq(a.p, b.p) /\ Type_eq(a.r, b.r) /\ a.m = b.m /\ a.n = b.n
           [] a.tag = "TSR" -> VecEq(a.dims, b.dims)
           [] a.tag = "UnresolvedModuleFun" -> a.a = b.a /\ a.b = b.b /\ a.c = b.c

\* what a Type_hash() call writes to the Hasher: a sequence of integers and
\* strings; PanicHash when the call panics
Num(n) == [int |-> n]
Str(x) == [str |-> x]
PanicHash == <<[panic |-> TRUE]>>
Join(h1, h2) == IF h1 = PanicHash \/ h2 = PanicHash THEN PanicHash ELSE h1 \o h2

RECURSIVE Type_hash(_), VecHashFrom(_, _)
\* the elements of a Vec<Type> from index i on
VecHashFrom(v, i) ==
    IF i > Len(v) THEN <<>> ELSE Join(Type_hash(v[i]), VecHashFrom(v, i + 1))

\* Vec<Type>::hash: the length, then the elements
VecHash(v) == Join(<<Num(Len(v))>>, VecHashFrom(v, 1))

\* impl Hash for Type
Type_hash(t) ==
    CASE t.tag = "Unit" -> <<>>
      [] t.tag = "INT" -> <<Num(0)>>
      [] t.tag = "FLOAT" -> <<Num(1)>>
      [] t.tag = "BOOL" -> <<Num(2)>>
      [] t.tag = "VAR" -> <<Num(3), Num(t.id)>>
      [] t.tag = "DIM" -> <<Num(4), Num(t.id)>>
      [] t.tag = "Module" ->
            Join(<<Num(5), Str(t.name)>>,
                 IF t.inner = NoInner THEN <<Num(0)>>
                 ELSE Join(<<Num(1)>>, Type_hash(t.inner)))
      [] t.tag = "FnArgs" -> Join(<<Num(6)>>, VecHash(t.args))
      [] t.tag = "FnArg" ->
            Join(<<Num(7)>> \o (IF t.name = None THEN <<Num(0)>> ELSE <<Num(1), Str(t.name)>>),
                 Type_hash(t.ty))
      [] t.tag = "ResolvedDim" -> <<Num(8), Num(t.n)>>
      [] t.tag = "FUN" ->
            Join(<<Num(9), Str(t.m), Str(t.n)>>, Join(Type_hash(t.p), Type_hash(t.r)))
      [] t.tag = "TSR" -> Join(<<Num(10)>>, VecHash(t.dims))
      [] t.tag = "UnresolvedModuleFun" -> <<Num(11), Str(t.a), Str(t.b), Str(t.c)>>
      [] OTHER -> PanicHash

\* the types compared and hashed: leaves, one level of structure over them,
\* and a second level over a few of those
SLeaves ==
    Stamped({Unit, INT, FLOAT, BOOL, ResolvedDim(3), ResolvedDim(4),
             UMF("p", "m", "f"), UMF("p", "m", "g")} \cup TyVars)
SInner == Stamped({INT, VAR(1), DIM(1)})
SVecs == UNION {[1..n -> SInner] : n \in 1..MaxLen}
SLevel1 ==
    Stamped({TSR(v) : v \in SVecs} \cup {Tuple(v) : v \in SVecs}
            \cup {FnArg(n, t) : n \in {None, "x", "y"}, t \in SInner}
            \cup {FUN5("m", n, p, r) : n \in {"f", "g"}, p, r \in Stamped({INT, VAR(1)})}
            \cup {Module(n, i) : n \in {"m", "n"}, i \in {NoInner} \cup Stamped({INT, VAR(1)})})
SNested ==
    {with_span(Tuple(<<with_span(INT, 1)>>), 1), with_span(TSR(<<with_span(DIM(1), 1)>>), 2)}
SLevel2 ==
    Stamped({TSR(<<t>>) : t \in SNested} \cup {Module("m", t) : t \in SNested}
            \cup {FnArgs(<<with_span(FnArg(n, t), sp)>>) :
                    n \in {None, "x"}, t \in SNested, sp \in Spans}
            \cup {FUN5("m", "f", p, with_span(INT, 1)) : p \in SNested})
STypes == SLeaves \cup SLevel1 \cup SLevel2

InitHash ==
    /\ pc = "start"
    /\ ta \in STypes
    /\ tb \in STypes
    /\ ta.tag = tb.tag
    /\ eqres = TRUE
    /\ hasha = <<>>
    /\ hashb = <<>>
    /\ isResolved = "true"
    /\ UnifyIdle
    /\ ComposeIdle
    /\ EnvIdle
    /\ ReplayIdle

\* ta == tb, then both are hashed (what inserting both into a HashSet does)
CompareAndHash ==
    /\ pc = "start"
    /\ eqres' = Type_eq(ta, tb)
    /\ hasha' = Type_hash(ta)
    /\ hashb' = Type_hash(tb)
    /\ pc' = "done"
    /\ UNCHANGED <<ta, tb, isResolved, unifyVars, composeVars, envVars, replayVars>>

NextHash == CompareAndHash

SpecHash == InitHash /\ [][NextHash]_vars

(***************************************************************************)
(* Runs of TypeEnv operations.                                             *)
(***************************************************************************)
InitEnv ==
    /\ envImpl \in {"typing", "typed_ast"}
    /\ tenv = TypeEnv_new(envImpl)
    /\ ret = NoCall
    /\ nops = 0
    /\ pc = "start"
    /\ UnifyIdle
    /\ ComposeIdle
    /\ HashIdle
    /\ ReplayIdle

\* a panic unwinds: the TypeEnv is not used again
CanCall == ret.status # "panic" /\ nops < MaxOps

\* the call op(m, a, arg) returned r
Called(op, m, a, arg, r) ==
    /\ tenv' = r.env
    /\ ret' = Ret(op, m, a, arg, r)
    /\ nops' = nops + 1
    /\ UNCHANGED <<envImpl, pc, unifyVars, composeVars, hashVars, replayVars>>

FreshDim == CanCall /\ Called("fresh_dim", Global, "", NoType, fresh_dim(tenv))

FreshVar == CanCall /\ Called("fresh_var", Global, "", NoType, fresh_var(tenv))

PushScope == CanCall /\ \E m \in EnvMods : Called("push_scope", m, "", NoType, push_scope(tenv, m))

PushScopeCollection ==
    CanCall /\ \E m \in EnvMods :
        Called("push_scope_collection", m, "", NoType, push_scope_collection(tenv, m))

PopScope == CanCall /\ \E m \in EnvMods : Called("pop_scope", m, "", NoType, pop_scope(tenv, m))

\* upsert_module is a method of typing/type_env.rs only
UpsertModule ==
    /\ CanCall
    /\ envImpl = "typing"
    /\ \E m \in EnvMods : Called("upsert_module", m, "", NoType, upsert_module(tenv, m))

AddType ==
    CanCall /\ \E m \in EnvMods, a \in EnvAliases, t \in BindTypes :
        Called("add_type", m, a, t, add_type(envImpl, tenv, m, a, t))

\* resolve_type(m, a): Some(ty) is "ok", None is "err"
ResolveType ==
    CanCall /\ \E m \in EnvMods, a \in EnvAliases \cup {"t"} :
        LET ty == resolve_type(envImpl, tenv, m, a) IN
        Called("resolve_type", m, a, NoType,
               Res(tenv, IF ty = PanicTy THEN "panic" ELSE IF ty = NoType THEN "err" ELSE "ok",
                   IF ty = PanicTy THEN NoType ELSE ty))

AddTsrAlias ==
    CanCall /\ \E m \in EnvMods, dims \in DimLists :
        Called("add_tsr_alias", m, "t", dims, add_tsr_alias(envImpl, tenv, m, "t", dims))

CreateTensor ==
    CanCall /\ \E m \in EnvMods, dims \in DimLists :
        Called("create_tensor", m, "", dims, create_tensor(envImpl, tenv, m, dims))

NextEnv ==
    \/ FreshDim
    \/ FreshVar
    \/ PushScope
    \/ PushScopeCollection
    \/ PopScope
    \/ UpsertModule
    \/ AddType
    \/ ResolveType
    \/ AddTsrAlias
    \/ CreateTensor

SpecEnv == InitEnv /\ [][NextEnv]_vars

(***************************************************************************)
(* Vocabulary of the properties.                                           *)
(***************************************************************************)
Done == pc = "done"
Returned == pc = "done" /\ result.status = "ok"
OneEquation == Cardinality(constraints) = 1
TheEquation == CHOOSE e \in constraints : TRUE
HasDiag(kind) == \E i \in DOMAIN result.errs : result.errs[i].kind = kind
DiagCount(kind) == Cardinality({i \in DOMAIN result.errs : result.errs[i].kind = kind})
IsTyVar(t) == t.tag \in {"VAR", "DIM"}

\* C1: occurs soundness.  Unifying Var(v)/Dim(v) with a type T (not itself
\* Var(v)/Dim(v)) in which v is reachable returns normally with the identity
\* substitution and a CircularType diagnostic, and no substitution returned
\* by unify maps a variable to a type that contains it.
C1_OccursSoundness ==
    Done =>
      /\ result.status = "ok" =>
            \A k \in DOMAIN result.subst : ~Mentions(k, result.subst[k])
      /\ OneEquation =>
            LET a == TheEquation.a
                b == TheEquation.b
                circular(x, T) == IsTyVar(x) /\ ~IsTyVar(T) /\ Mentions(x.id, T)
            IN  (circular(a, b) \/ circular(b, a)) =>
                    /\ result.status = "ok"
                    /\ result.subst = EmptySubst
                    /\ HasDiag("CircularType")

\* the types on which idempotence is probed
ProbeTypes == Leaves \cup Funs \cup Tsrs

\* C2: every substitution returned by unify is idempotent: no key occurs
\* inside a value, and applying it twice equals applying it once, in whatever
\* order apply_ty visits the entries.
C2_Idempotent ==
    Returned =>
      LET sigma == result.subst IN
      /\ \A k, j \in DOMAIN sigma : ~Mentions(k, sigma[j])
      /\ \A t \in ProbeTypes : \A o1, o2 \in Orders(DOMAIN sigma) :
            apply_ty(sigma, o2, apply_ty(sigma, o1, t)) = apply_ty(sigma, o1, t)

DimensionMismatch(a, b) == [kind |-> "DimensionMismatch", a |-> a, b |-> b]

\* C3: composition law.  For all substitutions s1, s2 and every type t,
\* s1.compose(s2).apply_ty(t) = s2.apply_ty(s1.apply_ty(t)), also when s1 and
\* s2 share a key.
C3_CompositionLaw == Done => lhs = rhs

RECURSIVE Strip(_)
\* t with every span removed
Strip(t) ==
    LET keep == [f \in (DOMAIN t) \ {"span"} |-> t[f]] IN
    CASE t.tag \in {"TSR"} -> [keep EXCEPT !.dims = [i \in DOMAIN t.dims |-> Strip(t.dims[i])]]
      [] t.tag = "Tuple" -> [keep EXCEPT !.elems = [i \in DOMAIN t.elems |-> Strip(t.elems[i])]]
      [] t.tag = "FnArgs" -> [keep EXCEPT !.args = [i \in DOMAIN t.args |-> Strip(t.args[i])]]
      [] t.tag = "FnArg" -> [keep EXCEPT !.ty = Strip(t.ty)]
      [] t.tag = "FUN" -> [keep EXCEPT !.p = Strip(t.p), !.r = Strip(t.r)]
      [] t.tag = "Module" ->
            [keep EXCEPT !.inner = IF t.inner = NoInner THEN NoInner ELSE Strip(t.inner)]
      [] OTHER -> keep

\* C4: span irrelevance.  Two types of any variant that differ only in spans
\* compare equal and hash (without panicking) to the same value, and any two
\* types that compare equal hash to the same value.
C4_SpanIrrelevance ==
    Done =>
      /\ Strip(ta) = Strip(tb) =>
            eqres /\ hasha # PanicHash /\ hashb # PanicHash /\ hasha = hashb
      /\ eqres => hasha # PanicHash /\ hashb # PanicHash /\ hasha = hashb

\* C5: dimension coherence.  ResolvedDim(i) = ResolvedDim(j) with i # j
\* records one DimensionMismatch holding both types, contributes the identity
\* and does not abort, so the other equations still bind; with i = j there is
\* no diagnostic.
C5_DimensionCoherence ==
    Done =>
      /\ OneEquation /\ TheEquation.a.tag = "ResolvedDim" /\ TheEquation.b.tag = "ResolvedDim" =>
            result = Ok(EmptySubst,
                        IF TheEquation.a.n = TheEquation.b.n THEN <<>>
                        ELSE <<DimensionMismatch(TheEquation.a, TheEquation.b)>>)
      /\ constraints = {Equals(TSR(<<ResolvedDim(3), DIM(1)>>),
                               TSR(<<ResolvedDim(4), ResolvedDim(5)>>))} =>
            result = Ok(Single(1, ResolvedDim(5)),
                        <<DimensionMismatch(ResolvedDim(3), ResolvedDim(4))>>)
      /\ \A v \in TyVars, t \in {INT, FLOAT} :
            constraints = {Equals(ResolvedDim(3), ResolvedDim(4)), Equals(v, t)} =>
                result = Ok(Single(v.id, t),
                            <<DimensionMismatch(ResolvedDim(3), ResolvedDim(4))>>)

\* C6: rank preservation.  Tsr(d1) = Tsr(d2) with |d1| # |d2| records a
\* RankMismatch and produces no bindings at all.
C6_RankPreservation ==
    Done /\ OneEquation /\ TheEquation.a.tag = "TSR" /\ TheEquation.b.tag = "TSR"
         /\ Len(TheEquation.a.dims) # Len(TheEquation.b.dims) =>
      /\ result.status = "ok"
      /\ result.subst = EmptySubst
      /\ HasDiag("RankMismatch")

\* a variant pair that no unification rule covers
NoRule(eq) ==
    \/ {eq.a.tag, eq.b.tag} = {"INT", "FLOAT"}
    \/ eq.a.tag = "TSR" /\ eq.b.tag = "INT"
    \/ eq.a.tag = "INT" /\ eq.b.tag = "TSR"
    \/ eq.a.tag = "Tuple" /\ eq.b.tag = "Tuple"
    \/ eq.a.tag = "Module" /\ eq.b.tag = "Module" /\ NoInner \in {eq.a.inner, eq.b.inner}

\* C7: no unification error is fatal.  unify returns a substitution for every
\* constraint set; an equation covered by no rule records one
\* IncompatibleTypes diagnostic and contributes the identity.
C7_NoErrorIsFatal ==
    Done =>
      /\ result.status = "ok"
      /\ OneEquation /\ NoRule(TheEquation) =>
            /\ result.subst = EmptySubst
            /\ DiagCount("IncompatibleTypes") = 1

\* C8: named arguments.  FnArg(Some a, t1) = FnArg(Some b, t2) equates t1
\* with t2 when a = b; when a # b it records a ParameterNameMismatch,
\* contributes the identity and lets the other equations bind.
C8_NamedArguments ==
    Done =>
      /\ OneEquation /\ TheEquation.a.tag = "FnArg" /\ TheEquation.b.tag = "FnArg"
            /\ None \notin {TheEquation.a.name, TheEquation.b.name}
            /\ TheEquation.a.name # TheEquation.b.name =>
            /\ result.status = "ok"
            /\ result.subst = EmptySubst
            /\ DiagCount("ParameterNameMismatch") = 1
      /\ constraints = {Equals(FnArg("x", VAR(1)), FnArg("x", INT)),
                        Equals(FnArg("x", VAR(1)), FnArg("y", FLOAT))} =>
            /\ result.status = "ok"
            /\ result.subst = Single(1, INT)
            /\ DiagCount("ParameterNameMismatch") = 1

\* C9: a missing argument name matches any name.  FnArg(None, t1) against
\* FnArg(n, t2), in either order, is unified exactly as the equation t1 = t2
\* and records no diagnostic.
C9_MissingNameMatchesAny ==
    Done /\ OneEquation /\ TheEquation.a.tag = "FnArg" /\ TheEquation.b.tag = "FnArg"
         /\ None \in {TheEquation.a.name, TheEquation.b.name} =>
      /\ result \in (IF impl = "subst"
                     THEN unify({Equals(TheEquation.a.ty, TheEquation.b.ty)})
                     ELSE Unifier_unify({Equals(TheEquation.a.ty, TheEquation.b.ty)}, <<>>))
      /\ result.errs = <<>>

\* C10: argument lists.  FnArgs(v1) = FnArgs(v2) with |v1| # |v2| records an
\* ArityMismatch instead of silently ignoring the extra arguments.
C10_ArityMismatch ==
    Done /\ OneEquation /\ TheEquation.a.tag = "FnArgs" /\ TheEquation.b.tag = "FnArgs"
         /\ Len(TheEquation.a.args) # Len(TheEquation.b.args) =>
      HasDiag("ArityMismatch")

(***************************************************************************)
(* Runs compared with each other.                                          *)
(***************************************************************************)
\* every outcome the call made in this state can have: one per way the
\* HashSet of equations and the HashMaps of bindings can be iterated
Outcomes ==
    IF impl = "subst" THEN unify(constraints) ELSE Unifier_unify(constraints, <<>>)

\* C11: determinism.  Two runs of unify on the same constraint set end with
\* the same substitution and the same sequence of diagnostics: the outcome
\* of a run is the only outcome the constraint set has.
C11_Determinism == Done => \A r \in Outcomes : r = result

\* the bijections on the ids
Renamings == {rho \in [Ids -> Ids] : \A i, j \in Ids : rho[i] = rho[j] => i = j}

RECURSIVE Rename(_, _)
\* t with every Var(i) / Dim(i) renamed to Var(rho[i]) / Dim(rho[i])
Rename(rho, t) ==
    CASE t.tag \in {"VAR", "DIM"} -> [t EXCEPT !.id = rho[t.id]]
      [] t.tag = "FUN" -> FUN(Rename(rho, t.p), Rename(rho, t.r))
      [] t.tag = "TSR" -> TSR([i \in DOMAIN t.dims |-> Rename(rho, t.dims[i])])
      [] t.tag = "FnArgs" -> FnArgs([i \in DOMAIN t.args |-> Rename(rho, t.args[i])])
      [] t.tag = "FnArg" -> FnArg(t.name, Rename(rho, t.ty))
      [] t.tag = "Tuple" -> Tuple([i \in DOMAIN t.elems |-> Rename(rho, t.elems[i])])
      [] t.tag = "Module" ->
            Module(t.name, IF t.inner = NoInner THEN NoInner ELSE Rename(rho, t.inner))
      [] OTHER -> t

\* the diagnostics of an outcome as a set
DiagSet(r) == {r.errs[i] : i \in DOMAIN r.errs}

\* two substitutions give the same apply_ty results up to one renaming of
\* the variables neither of them binds
SameUpToRenaming(s1, s2) ==
    \E rho \in Renamings :
        /\ \A k \in (DOMAIN s1) \cup (DOMAIN s2) : rho[k] = k
        /\ \A t \in ProbeTypes :
             \A o1 \in Orders(DOMAIN s1), o2 \in Orders(DOMAIN s2) :
                Rename(rho, apply_ty(s1, o1, t)) = apply_ty(s2, o2, t)

\* C12: order independence.  Whichever equation unify pops at each step, it
\* returns, and the substitutions returned are equal up to renaming of the
\* unbound variables and the same set of diagnostics is recorded.
C12_OrderIndependence ==
    Done =>
      \A r \in Outcomes :
        /\ (r.status = "ok") = (result.status = "ok")
        /\ r.status = "ok" /\ result.status = "ok" =>
              /\ SameUpToRenaming(result.subst, r.subst)
              /\ DiagSet(r) = DiagSet(result)

\* the outcomes of unifying the single equation eq
StepOne(eq) == IF impl = "subst" THEN unify_one(eq) ELSE Unifier_unify_one(eq, <<>>)

\* C13: termination.  unify reaches its result for every constraint set, and
\* the argument for it holds of every step: the binding made for an equation
\* with a variable on one side leaves none of its variables in the rest of
\* the equations once it has been applied to them.
C13_Termination ==
    Done =>
      /\ result.status = "ok"
      /\ \A eq \in constraints : IsTyVar(eq.a) \/ IsTyVar(eq.b) =>
           \A r1 \in StepOne(eq) : r1.status = "ok" =>
             \A o \in Orders(DOMAIN r1.subst) :
               \A e \in apply(r1.subst, o, constraints \ {eq}) :
                 \A k \in DOMAIN r1.subst : ~Mentions(k, e.a) /\ ~Mentions(k, e.b)

\* C14: deferred types leak through.  An equation with UnresolvedModuleFun
\* on either side, whatever the other side, gives the identity substitution
\* and no diagnostic, and no substitution returned by unify binds a variable
\* to an UnresolvedModuleFun.
C14_DeferredLeakThrough ==
    Done =>
      /\ OneEquation /\ UnresolvedModuleFun \in {TheEquation.a, TheEquation.b} =>
            result = Ok(EmptySubst, <<>>)
      /\ Returned => \A k \in DOMAIN result.subst : result.subst[k] # UnresolvedModuleFun

(***************************************************************************)
(* Scope replay: module m is walked twice over the same block structure,   *)
(* first by annotation (push_scope / pop_scope), then by constraint        *)
(* collection (push_scope_collection / pop_scope).  events is the walk: a  *)
(* balanced sequence of block entries and exits.  Annotation binds, in the *)
(* scope of its k-th block, the alias "b" to ResolvedDim(k), so that the   *)
(* scopes of different blocks differ.                                      *)
(***************************************************************************)
MaxBlocks == 4   \* most blocks in the walked module

\* the entries among the first n events
Entries(ev, n) == Cardinality({i \in 1..n : ev[i] = "enter"})

\* balanced walks: no prefix exits more blocks than it entered
Walks ==
    UNION {{ev \in [1..(2 * n) -> {"enter", "exit"}] :
                /\ Entries(ev, 2 * n) = n
                /\ \A i \in 1..(2 * n) : 2 * Entries(ev, i) >= i} : n \in 1..MaxBlocks}

InitReplay ==
    /\ events \in Walks
    /\ phase = "setup"
    /\ pos = 0
    /\ envImpl = "typing"
    /\ tenv = TypeEnv_new("typing")
    /\ ret = NoCall
    /\ nops = 0
    /\ pc = "start"
    /\ UnifyIdle
    /\ ComposeIdle
    /\ HashIdle

\* the call op(m, ...) of the walk returned r, and the walk moves on
Walked(op, r, nextPhase, nextPos) ==
    /\ tenv' = r.env
    /\ ret' = Ret(op, "m", "", NoType, r)
    /\ phase' = nextPhase
    /\ pos' = nextPos
    /\ UNCHANGED <<events, envImpl, nops, pc, unifyVars, composeVars, hashVars>>

Walking(ph) == phase = ph /\ ret.status # "panic" /\ pos < Len(events)

\* the module is entered: upsert_module(m) gives it its first scope
EnterModule ==
    /\ phase = "setup"
    /\ Walked("upsert_module", upsert_module(tenv, "m"), "annotate", 0)

\* annotation enters a block: push_scope(m), then the block's binding
AnnotateEnter ==
    /\ Walking("annotate")
    /\ events[pos + 1] = "enter"
    /\ LET p == push_scope(tenv, "m") IN
       Walked("push_scope",
              IF p.status # "ok" THEN p
              ELSE add_type(envImpl, p.env, "m", "b", ResolvedDim(Entries(events, pos + 1))),
              "annotate", pos + 1)

\* annotation leaves a block: pop_scope(m)
AnnotateExit ==
    /\ Walking("annotate")
    /\ events[pos + 1] = "exit"
    /\ Walked("pop_scope", pop_scope(tenv, "m"), "annotate", pos + 1)

\* annotation is over, collection starts at the first event again
StartCollection ==
    /\ phase = "annotate"
    /\ pos = Len(events)
    /\ ret.status # "panic"
    /\ phase' = "collect"
    /\ pos' = 0
    /\ UNCHANGED <<events, envVars, pc, unifyVars, composeVars, hashVars>>

\* collection enters a block: push_scope_collection(m)
CollectEnter ==
    /\ Walking("collect")
    /\ events[pos + 1] = "enter"
    /\ Walked("push_scope_collection", push_scope_collection(tenv, "m"), "collect", pos + 1)

\* collection leaves a block: pop_scope(m)
CollectExit ==
    /\ Walking("collect")
    /\ events[pos + 1] = "exit"
    /\ Walked("pop_scope", pop_scope(tenv, "m"),
              IF pos + 1 = Len(events) THEN "end" ELSE "collect", pos + 1)

NextReplay ==
    \/ EnterModule
    \/ AnnotateEnter
    \/ AnnotateExit
    \/ StartCollection
    \/ CollectEnter
    \/ CollectExit

SpecReplay == InitReplay /\ [][NextReplay]_vars

(***************************************************************************)
(* Properties of the TypeEnv.                                              *)
(***************************************************************************)
\* the top of module m's active stack
TopScope(env, m) == env.modules[m].active[Len(env.modules[m].active)]

\* module m has a current scope
HasScope(env, m) == m \in DOMAIN env.modules /\ env.modules[m].active # <<>>

\* the TypeEnv with alias bound to ty in the current scope of m, m being
\* given one empty scope first if it does not exist
BoundInCurrent(env, m, alias, ty) ==
    LET mod == IF m \in DOMAIN env.modules THEN env.modules[m] ELSE NewModule
    IN  SetModule(env, m, [mod EXCEPT !.active[Len(mod.active)] = Bind(@, alias, ty)])

\* C15: add_type never overwrites.  If the alias is bound in the current scope
\* of m, add_type returns DuplicateVarInScope with the original and the new
\* type and leaves the TypeEnv as it was; otherwise it binds the alias in that
\* scope only and returns success.
C15_AddTypeNeverOverwrites ==
    [][ret'.op = "add_type" =>
         LET m == ret'.m
             a == ret'.a
         IN  IF HasScope(tenv, m) /\ a \in DOMAIN TopScope(tenv, m)
             THEN /\ ret'.status = "err"
                  /\ ret'.val = DuplicateVarInScope(a, TopScope(tenv, m)[a], ret'.arg)
                  /\ tenv' = tenv
             ELSE /\ ret'.status = "ok"
                  /\ (m \notin DOMAIN tenv.modules \/ HasScope(tenv, m)) =>
                        tenv' = BoundInCurrent(tenv, m, a, ret'.arg)]_vars

\* the binding of alias in the innermost active scope of m that has one
InnermostBinding(env, m, alias) ==
    LET act == env.modules[m].active
        has == {i \in DOMAIN act : alias \in DOMAIN act[i]}
    IN  IF has = {} THEN NoType
        ELSE act[CHOOSE i \in has : \A j \in has : j <= i][alias]

\* C16: resolve_type(m, a) returns the binding of the innermost active scope
\* of m that binds a; if none does, that of the innermost active scope of
\* Global that binds a; None if neither module binds a.
C16_ResolveInnermostFirst ==
    ret.op = "resolve_type" /\ ret.m \in DOMAIN tenv.modules /\ Global \in DOMAIN tenv.modules =>
      LET inM == InnermostBinding(tenv, ret.m, ret.a)
          expected == IF inM # NoType THEN inM ELSE InnermostBinding(tenv, Global, ret.a)
      IN  /\ ret.status = (IF expected = NoType THEN "err" ELSE "ok")
          /\ ret.val = expected

\* the block the event at position n enters
BlockAt(n) == Entries(events, n)

\* C17: scope replay.  When collection enters a block with
\* push_scope_collection, the scope that becomes current is the one
\* annotation created for that block, with its bindings, whatever the nesting
\* and the number of siblings.
C17_ScopeReplay ==
    phase \in {"collect", "end"} /\ pos >= 1 /\ events[pos] = "enter" =>
      /\ ret.status = "ok"
      /\ TopScope(tenv, "m") = Bind(Scope_new, "b", ResolvedDim(BlockAt(pos)))

\* the operations that call fresh_dim
CallsFreshDim == {"fresh_dim", "add_tsr_alias", "create_tensor"}

\* C18: fresh ids.  The counter never decreases and changes only through
\* fresh_var and fresh_dim; each call of them increments it by one and returns
\* the Var or Dim of the new value; no id is handed out twice.
C18_FreshIds ==
    /\ [][/\ tenv'.counter >= tenv.counter
          /\ Len(tenv'.issued) - Len(tenv.issued) = tenv'.counter - tenv.counter
          /\ tenv'.counter # tenv.counter => ret'.op \in CallsFreshDim \cup {"fresh_var"}
          /\ ret'.op = "fresh_var" =>
                tenv'.counter = tenv.counter + 1 /\ ret'.val = VAR(tenv'.counter)
          /\ ret'.op = "fresh_dim" =>
                tenv'.counter = tenv.counter + 1 /\ ret'.val = DIM(tenv'.counter)]_vars
    /\ [](\A i, j \in DOMAIN tenv.issued : tenv.issued[i] = tenv.issued[j] => i = j)

\* a third id has just been handed out
C18_Witness ==
    ret.op \in {"fresh_var", "fresh_dim"} /\ tenv.counter = 3 /\ Len(tenv.issued) = 3

\* the tokens of a dimension list
Tokens(dims) == {dims[i] : i \in DOMAIN dims}

\* C19: add_tsr_alias.  After a successful add_tsr_alias(m, a, dims) whose
\* dims are aliases (no numerals, none naming a tensor): every alias of dims
\* resolves in m; one that resolved before the call resolves to the same type
\* and got no fresh Dim; each of the others is bound to one fresh Dim; and a
\* is bound to the Tsr of the resolved types of dims in order.
C19_AddTsrAlias ==
    [][(/\ ret'.op = "add_tsr_alias"
        /\ ret'.status = "ok"
        /\ \A d \in Tokens(ret'.arg) :
              /\ d \notin DOMAIN ParseTable
              /\ resolve_type(envImpl, tenv, ret'.m, d).tag # "TSR") =>
         LET m == ret'.m
             dims == ret'.arg
             before(d) == resolve_type(envImpl, tenv, m, d)
             after(d) == resolve_type(envImpl, tenv', m, d)
             unseen == {d \in Tokens(dims) : before(d) = NoType}
         IN  /\ \A d \in Tokens(dims) : after(d) \notin {NoType, PanicTy}
             /\ \A d \in Tokens(dims) \ unseen : after(d) = before(d)
             /\ \A d \in unseen : after(d).tag = "DIM" /\ after(d).id > tenv.counter
             /\ tenv'.counter = tenv.counter + Cardinality(unseen)
             /\ ret'.a \in DOMAIN TopScope(tenv', m)
             /\ TopScope(tenv', m)[ret'.a] = TSR([i \in DOMAIN dims |-> after(dims[i])])]_vars

\* the dimensions one token of create_tensor stands for: ResolvedDim(n) for
\* a numeral, the dimension list of the Tsr its alias resolves to, or the
\* type its alias resolves to
Piece(env, m, tok) ==
    IF tok \in DOMAIN ParseTable THEN <<ResolvedDim(ParseTable[tok])>>
    ELSE LET ty == resolve_type(envImpl, env, m, tok) IN
         IF ty.tag = "TSR" THEN ty.dims ELSE <<ty>>

RECURSIVE Pieces(_, _, _, _)
\* the concatenation of the pieces of dims[i..]
Pieces(env, m, dims, i) ==
    IF i > Len(dims) THEN <<>> ELSE Piece(env, m, dims[i]) \o Pieces(env, m, dims, i + 1)

\* C20: create_tensor.  A create_tensor(m, dims) that returns gives the Tsr
\* of the in-order concatenation of: ResolvedDim(n) for a numeral token, the
\* dimensions of the Tsr its alias resolves to (spliced in), the type its
\* alias resolves to otherwise; two occurrences of one token give equal
\* dimensions; no scope binding is added or changed.
C20_CreateTensor ==
    [][ret'.op = "create_tensor" /\ ret'.status = "ok" =>
         LET m == ret'.m
             dims == ret'.arg
             resolved(d) == d \in DOMAIN ParseTable \/ resolve_type(envImpl, tenv, m, d) # NoType
         IN  /\ tenv'.modules = tenv.modules
             /\ (\A d \in Tokens(dims) : resolved(d)) =>
                    ret'.val = TSR(Pieces(tenv, m, dims, 1))
             /\ (\A d \in Tokens(dims) : ~resolved(d)) =>
                    /\ Len(ret'.val.dims) = Len(dims)
                    /\ \A i, j \in DOMAIN dims :
                          dims[i] = dims[j] => ret'.val.dims[i] = ret'.val.dims[j]]_vars

(***************************************************************************)
(* Type::is_resolved (trsc/src/typing/types.rs).  The result is "true",    *)
(* "false", or "unimplemented" when the call ends in unimplemented!().     *)
(***************************************************************************)
RECURSIVE is_resolved(_), all_resolved_from(_, _)
\* ts.iter().map(|t| t.is_resolved()).all(|t| t) from element i on: the
\* iterator is lazy and all() stops at the first false
all_resolved_from(ts, i) ==
    IF i > Len(ts) THEN "true"
    ELSE LET r == is_resolved(ts[i]) IN
         IF r = "true" THEN all_resolved_from(ts, i + 1) ELSE r

\* Type::is_resolved
is_resolved(t) ==
    CASE t.tag \in {"Unit", "INT", "FLOAT", "BOOL"} -> "true"
      [] t.tag = "UnresolvedModuleFun" -> "false"
      [] t.tag \in {"VAR", "DIM"} -> "false"
      [] t.tag = "Module" -> IF t.inner = NoInner THEN "false" ELSE is_resolved(t.inner)
      [] t.tag = "FnArgs" -> all_resolved_from(t.args, 1)
      [] t.tag = "FnArg" -> is_resolved(t.ty)
      [] t.tag = "ResolvedDim" -> "true"
      [] t.tag = "FUN" ->
            LET p == is_resolved(t.p) IN IF p = "true" THEN is_resolved(t.r) ELSE p
      [] t.tag = "TSR" -> "true"
      [] OTHER -> "unimplemented"

InitResolved ==
    /\ pc = "start"
    /\ ta \in STypes
    /\ tb = INT
    /\ eqres = TRUE
    /\ hasha = <<>>
    /\ hashb = <<>>
    /\ isResolved = "true"
    /\ UnifyIdle
    /\ ComposeIdle
    /\ EnvIdle
    /\ ReplayIdle

\* a call of ta.is_resolved()
CallIsResolved ==
    /\ pc = "start"
    /\ isResolved' = is_resolved(ta)
    /\ pc' = "done"
    /\ UNCHANGED <<ta, tb, eqres, hasha, hashb, unifyVars, composeVars, envVars, replayVars>>

NextResolved == CallIsResolved

SpecResolved == InitResolved /\ [][NextResolved]_vars

RECURSIVE Unresolved(_)
\* a Var, a Dim or an UnresolvedModuleFun is reachable inside t
Unresolved(t) ==
    CASE t.tag \in {"VAR", "DIM", "UnresolvedModuleFun"} -> TRUE
      [] t.tag = "FUN" -> Unresolved(t.p) \/ Unresolved(t.r)
      [] t.tag = "FnArgs" -> \E i \in DOMAIN t.args : Unresolved(t.args[i])
      [] t.tag = "FnArg" -> Unresolved(t.ty)
      [] t.tag = "TSR" -> \E i \in DOMAIN t.dims : Unresolved(t.dims[i])
      [] t.tag = "Tuple" -> \E i \in DOMAIN t.elems : Unresolved(t.elems[i])
      [] t.tag = "Module" -> t.inner # NoInner /\ Unresolved(t.inner)
      [] OTHER -> FALSE

\* C21: is_resolved is defined for every type and is true exactly when no
\* Var, Dim or UnresolvedModuleFun is reachable inside it, the dimensions of
\* a Tsr, the elements of a Tuple and the inner type of a Module included.
C21_IsResolved ==
    Done => isResolved = (IF Unresolved(ta) THEN "false" ELSE "true")

(***************************************************************************)
(* Substitution::apply_ty on its own.                                      *)
(***************************************************************************)
\* the substitutions applied: no key occurs in a value
ApplySubsts ==
    {s \in UNION {[D -> {INT, ResolvedDim(3)} \cup {VAR(i) : i \in Ids}] : D \in SUBSET Ids} :
        \A k, j \in DOMAIN s : ~Mentions(k, s[j])}

\* the types they are applied to: variables inside every variant
ApplyTypes ==
    Leaves \cup Funs \cup Tsrs \cup Args \cup ArgLists \cup Plain
      \cup {TSR(<<DIM(1), DIM(2)>>), Tuple(<<VAR(1), INT>>), Tuple(<<INT, INT>>),
            Module("m", VAR(1)), Module("m", INT), Module("m", NoInner),
            FUN(TSR(<<VAR(1)>>), INT), FUN(VAR(2), VAR(1))}

InitApply ==
    /\ pc = "start"
    /\ sigma1 \in ApplySubsts
    /\ sigma2 = EmptySubst
    /\ probe \in ApplyTypes
    /\ lhs = INT
    /\ rhs = INT
    /\ UnifyIdle
    /\ HashIdle
    /\ EnvIdle
    /\ ReplayIdle

\* a call of sigma1.apply_ty(probe), the HashMap iterated in any of its orders
ApplyTy ==
    /\ pc = "start"
    /\ \E o \in Orders(DOMAIN sigma1) : lhs' = apply_ty(sigma1, o, probe)
    /\ pc' = "done"
    /\ UNCHANGED <<sigma1, sigma2, probe, rhs, unifyVars, hashVars, envVars, replayVars>>

NextApply == ApplyTy

SpecApply == InitApply /\ [][NextApply]_vars

\* C22: apply_ty replaces every occurrence of a bound variable.  The result
\* of sigma.apply_ty(t) contains no Var(k) or Dim(k) for a key k whose value
\* does not mention k, wherever the occurrence sits in t; a type without
\* such an occurrence is returned unchanged; {1 -> R, 2 -> R} applied to
\* T[d1, d2] gives T[R, R].
C22_ApplyReplacesAll ==
    Done =>
      /\ lhs # PanicTy
      /\ \A k \in DOMAIN sigma1 : ~Mentions(k, sigma1[k]) => ~Mentions(k, lhs)
      /\ (\A k \in DOMAIN sigma1 : ~Mentions(k, probe)) => lhs = probe
      /\ sigma1 = [k \in {1, 2} |-> ResolvedDim(3)] /\ probe = TSR(<<DIM(1), DIM(2)>>) =>
            lhs = TSR(<<ResolvedDim(3), ResolvedDim(3)>>)

RECURSIVE BuiltFrom(_, _)
\* t is built from the variants in tags only
BuiltFrom(t, tags) ==
    /\ t.tag \in tags
    /\ CASE t.tag = "FUN" -> BuiltFrom(t.p, tags) /\ BuiltFrom(t.r, tags)
         [] t.tag = "TSR" -> \A i \in DOMAIN t.dims : BuiltFrom(t.dims[i], tags)
         [] OTHER -> TRUE

\* the variants the soundness of the unifier is stated for
SoundTags == {"INT", "FLOAT", "BOOL", "Unit", "VAR", "DIM", "ResolvedDim", "TSR", "FUN"}

RECURSIVE IdsOf(_, _)
\* the ids that occur in t as a variable of the given kind ("VAR" or "DIM")
IdsOf(t, kind) ==
    CASE t.tag = kind -> {t.id}
      [] t.tag = "FUN" -> IdsOf(t.p, kind) \cup IdsOf(t.r, kind)
      [] t.tag = "TSR" -> UNION {IdsOf(t.dims[i], kind) : i \in DOMAIN t.dims}
      [] OTHER -> {}

\* fresh_var and fresh_dim draw from one counter: no id is both a Var and a
\* Dim in the equations
KindsDistinct ==
    LET of(kind) == UNION {IdsOf(eq.a, kind) \cup IdsOf(eq.b, kind) : eq \in constraints}
    IN  of("VAR") \cap of("DIM") = {}

\* C23: unifier soundness.  When unify returns without a diagnostic for a
\* set of equations over scalars, Var, Dim, ResolvedDim, Tsr and Fun, the
\* substitution it returns unifies the set: applied to the two sides of each
\* input equation it gives equal types, in whatever order the equations were
\* processed and the bindings are applied.
C23_UnifierSoundness ==
    Returned /\ result.errs = <<>> /\ KindsDistinct
      /\ (\A eq \in constraints : BuiltFrom(eq.a, SoundTags) /\ BuiltFrom(eq.b, SoundTags)) =>
        \A eq \in constraints : \A o \in Orders(DOMAIN result.subst) :
            apply_ty(result.subst, o, eq.a) = apply_ty(result.subst, o, eq.b)

\* the number of scopes module m holds, active and parked
ScopeCount(env, m) == Len(env.modules[m].active) + Len(env.modules[m].parked)

\* env2 differs from env in the two stacks of module m at most: the counter,
\* the set of modules, every other module and the init map of m are the same
OnlyStacksOf(env, env2, m) ==
    /\ env2.counter = env.counter
    /\ env2.issued = env.issued
    /\ DOMAIN env2.modules = DOMAIN env.modules
    /\ \A x \in DOMAIN env.modules : x # m => env2.modules[x] = env.modules[x]
    /\ env2.modules[m].inits = env.modules[m].inits

\* C24: scope conservation.  A pop_scope(m) that returns moves the top of m's
\* active stack, as it is, to the back of m's parked stack; a
\* push_scope_collection(m) that returns moves the front of m's parked stack,
\* as it is, to the top of m's active stack; a push_scope(m) that returns adds
\* one empty scope at the top of m's active stack.  The first two leave the
\* number of scopes of m as it was, and all three leave the other scopes of m
\* with their bindings, the other modules, the init maps and the counter
\* untouched.
C24_ScopeConservation ==
    [][ret'.status = "ok" /\ ret'.op \in {"pop_scope", "push_scope_collection", "push_scope"} =>
         LET m == ret'.m
             old == tenv.modules[m]
             new == tenv'.modules[m]
         IN  /\ OnlyStacksOf(tenv, tenv', m)
             /\ ret'.op = "pop_scope" =>
                  /\ old.active = Append(new.active, TopScope(tenv, m))
                  /\ new.parked = Append(old.parked, TopScope(tenv, m))
                  /\ ScopeCount(tenv', m) = ScopeCount(tenv, m)
             /\ ret'.op = "push_scope_collection" =>
                  /\ old.parked = <<Head(old.parked)>> \o new.parked
                  /\ new.active = Append(old.active, Head(old.parked))
                  /\ ScopeCount(tenv', m) = ScopeCount(tenv, m)
             /\ ret'.op = "push_scope" =>
                  /\ new.active = Append(old.active, Scope_new)
                  /\ new.parked = old.parked]_vars

\* a scope with a binding has been popped and brought back by
\* push_scope_collection while another module holds scopes of its own
C24_Witness ==
    /\ ret.op = "push_scope_collection"
    /\ ret.status = "ok"
    /\ TopScope(tenv, ret.m) # Scope_new
    /\ \E x \in DOMAIN tenv.modules : x # ret.m

\* C25: add_type always has a current scope.  In a TypeEnv reached by calls
\* of upsert_module, push_scope, pop_scope, push_scope_collection and add_type
\* that all returned, add_type(m, a, t) returns Ok with a bound in the current
\* scope of m or returns DuplicateVarInScope, whether m was absent or all of
\* its active scopes have been popped.
C25_AddTypeHasScope ==
    [][ret'.op = "add_type" /\ envImpl = "typing" =>
         \/ /\ ret'.status = "ok"
            /\ HasScope(tenv', ret'.m)
            /\ ret'.a \in DOMAIN TopScope(tenv', ret'.m)
            /\ TopScope(tenv', ret'.m)[ret'.a] = ret'.arg
         \/ /\ ret'.status = "err"
            /\ ret'.val.kind = "DuplicateVarInScope"]_vars
====
